---- MODULE Spec2Model ----
(***************************************************************************)
(* PickLock (src/src/rsa.rs): the iteration cap, the close-factor (Fermat) *)
(* search try_lock_pick_weak_private, and the concurrent search            *)
(* try_lock_pick_strong_private with its coordinator                       *)
(* validate_received_prime_pairs.                                          *)
(*                                                                         *)
(* TLC integers are 32 bits wide, so a usize is carried as three base-10^7 *)
(* limbs <<high, middle, low>>; every other number of the model stays far  *)
(* below 2^31.                                                             *)
(***************************************************************************)
EXTENDS Integers, Sequences, FiniteSets, TLC

VARIABLES
    e, n,             \* PickLock.e, PickLock.n
    max_iter,         \* PickLock.max_iter, a usize in limbs
    alter_call,       \* the last alter_max_iter call: its argument, max_iter
                      \* before it and what it returned; dropped by the caller
                      \* when it goes on to a search
    pc,               \* position of the calling thread
    a, b, i,          \* weak search: a, b and the number of loop iterations run
    p, q,             \* the pair of either search
    next,             \* strong search: candidates counted against max_iter
    checked_primes,   \* strong search: the HashSet of candidates seen
    validated,        \* strong search: number of divisions n / p performed
    accepted,         \* strong search: is_prime(q).probably() answered true
    spawned,          \* strong search: number of spawn calls made
    stops,            \* strong search: the counter handed to the coordinator
    sent,             \* strong search: stop messages sent by the coordinator
    workers,          \* per diff: how many workers are at select, in default, exited
    stop_taken,       \* number of stop messages received by workers
    rx,               \* the candidate channel (tx -> rx), a FIFO queue
    stop_rx,          \* number of messages waiting in the stop channel
    result            \* what the search call returned

vars == <<e, n, max_iter, alter_call, pc, a, b, i, p, q, next, checked_primes,
          validated, accepted, spawned, stops, sent, workers, stop_taken,
          rx, stop_rx, result>>

-----------------------------------------------------------------------------
(* Bounds of the model.                                                    *)

\* Searches are started only with max_iter <= MaxIterRun.
MaxIterRun == 2
\* The unbounded candidate channel holds at most MaxQueue messages.
MaxQueue == 1

-----------------------------------------------------------------------------
(* usize values in limbs.                                                  *)

Base == 10 ^ 7

Limbs(x) == <<0, 0, x>>

\* 99999999999999, the literal of line 89
Ceiling == <<0, Base - 1, Base - 1>>
\* 100000000000000
CeilingPlusOne == <<1, 0, 0>>
\* usize::MAX = 18446744073709551615 on a 64-bit target
UsizeMax == <<184467, 4407370, 9551615>>

Gt(x, y) ==
    \/ x[1] > y[1]
    \/ x[1] = y[1] /\ x[2] > y[2]
    \/ x[1] = y[1] /\ x[2] = y[2] /\ x[3] > y[3]

Small(x) == x[1] = 0 /\ x[2] = 0
Low(x) == x[3]

MAX_ITERATIONS == 1000
BITS_IN_BYTE == 8
PRIME_CREATE_PROCESSES == 4

-----------------------------------------------------------------------------
(* Arithmetic of the libraries the code calls.                             *)

\* BigInt::sqrt: the truncated principal square root
ISqrt(x) == CHOOSE r \in 0..x : r * r <= x /\ (r + 1) * (r + 1) > x

RECURSIVE Gcd(_, _)
Gcd(x, y) == IF y = 0 THEN x ELSE Gcd(y, x % y)

\* The extended Euclid loop of BigUint::modinv on (r0, r1, t0, t1), t taken
\* modulo m; it ends with r1 = 0 and answers t0 when r0 = 1.
RECURSIVE ModInvLoop(_, _, _, _, _)
ModInvLoop(r0, r1, t0, t1, m) ==
    IF r1 = 0
    THEN IF r0 = 1 THEN [kind |-> "Some", val |-> t0 % m] ELSE [kind |-> "None"]
    ELSE ModInvLoop(r1, r0 % r1, t1, (t0 - (r0 \div r1) * t1) % m, m)

\* modinv without its zero-modulus assertion: zero answered like one
ModInvNoAssert(x, m) ==
    IF m <= 1 THEN [kind |-> "Some", val |-> 0]
    ELSE ModInvLoop(m, x % m, 0, 1, m)

\* BigInt::modinv for a positive self: Some(the inverse in [0, m)), None when
\* there is none, Some(0) for m = 1, and a panic ("attempt to calculate with
\* zero modulus!") for m = 0.
ModInv(x, m) ==
    IF m = 0 THEN [kind |-> "panic"]
    ELSE IF m = 1 THEN [kind |-> "Some", val |-> 0]
    ELSE ModInvLoop(m, x % m, 0, 1, m)

IsPrime(x) == x >= 2 /\ \A d \in 2..ISqrt(x) : x % d # 0

\* n.to_bytes_be().1.len(): the number of bytes of the magnitude, 1 for zero
RECURSIVE ByteLen(_)
ByteLen(x) == IF x < 256 THEN 1 ELSE 1 + ByteLen(x \div 256)

RECURSIVE BitLen(_)
BitLen(x) == IF x = 0 THEN 0 ELSE 1 + BitLen(x \div 2)

-----------------------------------------------------------------------------
(* What a call returns.  Every failure is a BilboError::GenericError; kind  *)
(* names the message and shows lists the numbers the message prints.        *)

NoResult == [kind |-> "none"]
Ok(d) == [kind |-> "Ok", d |-> d]
\* "cannot crack the private exponent of the given n {} and e {}", weak search
FactorizationFailed == [kind |-> "FactorizationFailed", shows |-> <<n, e>>]
\* the same message, from the coordinator of the strong search
SearchExhausted == [kind |-> "SearchExhausted", shows |-> <<n, e>>]
\* "cannot calculate private exponent for phi {} and e {}"
NoInverseExists(phi) == [kind |-> "NoInverseExists", shows |-> <<phi, e>>]
\* the thread panicked inside modinv
Panicked == [kind |-> "panic"]

\* lines 150-158 and 271-279: phi and the match on e.modinv(&phi)
Derive(pp, qq) ==
    LET phi == (pp - 1) * (qq - 1)
        r == ModInv(e, phi)
    IN  CASE r.kind = "Some" -> Ok(r.val)
          [] r.kind = "None" -> NoInverseExists(phi)
          [] OTHER -> Panicked

-----------------------------------------------------------------------------
(* The keys and the requests the model runs.                               *)

\* the keys <<e, n>> handed to from_exponent_and_modulus: 7 is prime,
\* 15 = 3 * 5, 25 = 5 * 5, 33 = 3 * 11, 35 = 5 * 7, 413 = 7 * 59 and
\* 531 = 9 * 59
Keys == {<<3, 7>>, <<3, 15>>, <<3, 25>>, <<3, 33>>, <<3, 35>>, <<5, 35>>,
         <<5, 413>>, <<3, 531>>}

\* the values given to alter_max_iter
AlterInputs ==
    {Limbs(x) : x \in 0..MaxIterRun} \cup {Ceiling, CeilingPlusOne, UsizeMax}

Diffs == 0..2

NoCall == [result |-> "none"]

Init ==
    /\ \E key \in Keys : e = key[1] /\ n = key[2]
    /\ max_iter = Limbs(MAX_ITERATIONS)
    /\ alter_call = NoCall
    /\ pc = "idle"
    /\ a = 0 /\ b = 0 /\ i = 0
    /\ p = 0 /\ q = 0
    /\ next = 0
    /\ checked_primes = {}
    /\ validated = 0
    /\ accepted = FALSE
    /\ spawned = 0
    /\ stops = 0
    /\ sent = 0
    /\ workers = [d \in Diffs |-> [select |-> 0, default |-> 0, exited |-> 0]]
    /\ stop_taken = 0
    /\ rx = <<>>
    /\ stop_rx = 0
    /\ result = NoResult

weakVars == <<a, b, i>>
strongVars == <<next, checked_primes, validated, accepted, spawned, stops, sent,
                workers, stop_taken, rx, stop_rx>>

-----------------------------------------------------------------------------
(* alter_max_iter, lines 88-101.                                           *)

\* a request of 0 read as "the default"
StoredIterDefault(iter) ==
    IF iter = Limbs(0) THEN Limbs(MAX_ITERATIONS) ELSE iter

\* lines 95-97: the value stored for a request within the ceiling
StoredIter(iter) == IF iter = Limbs(0) THEN Limbs(0) ELSE iter

\* the ceiling itself refused: >= for >
OverCeilingInclusive(iter) == Gt(iter, Ceiling) \/ iter = Ceiling

\* line 89: the request is refused
OverCeiling(iter) == Gt(iter, Ceiling)

alter_max_iter(iter) ==
    /\ pc = "idle"
    /\ IF OverCeiling(iter)
       THEN /\ alter_call' = [result |-> "ConfigError", iter |-> iter,
                              before |-> max_iter]
            /\ UNCHANGED max_iter
       ELSE /\ max_iter' = StoredIter(iter)
            /\ alter_call' = [result |-> "Ok", iter |-> iter,
                              before |-> max_iter]
    /\ UNCHANGED <<e, n, pc, p, q, result>>
    /\ UNCHANGED weakVars
    /\ UNCHANGED strongVars

\* a search of the model runs with this many iterations at most
CanRun == Small(max_iter) /\ Low(max_iter) <= MaxIterRun
MaxIter == Low(max_iter)

-----------------------------------------------------------------------------
(* try_lock_pick_weak_private, lines 125-159.                              *)

\* line 126
FirstA == ISqrt(n) + 1

\* lines 130-133: a * a - n is a perfect square
IsHit(aa) ==
    LET b_rest == aa * aa - n
        b_rest_sqrt == ISqrt(b_rest)
    IN  b_rest_sqrt * b_rest_sqrt = b_rest

\* the test of line 143 left out
WeakRefusedNever(pp, qq) == FALSE

\* line 143: the pair is refused
WeakRefused(pp, qq) == pp * qq # n

StartWeak ==
    /\ pc = "idle"
    /\ CanRun
    /\ pc' = "weak_loop"
    /\ a' = FirstA
    /\ b' = 0
    /\ i' = 0
    /\ alter_call' = NoCall
    /\ UNCHANGED <<e, n, max_iter, p, q, result>>
    /\ UNCHANGED strongVars

\* one iteration of the for loop of line 129, or its end
WeakLoop ==
    /\ pc = "weak_loop"
    /\ \/ /\ i < MaxIter
          /\ IsHit(a)
          /\ b' = ISqrt(a * a - n)
          /\ i' = i + 1
          /\ pc' = "weak_post"
          /\ UNCHANGED a
       \/ /\ i < MaxIter
          /\ ~IsHit(a)
          /\ a' = a + 1
          /\ i' = i + 1
          /\ UNCHANGED <<b, pc>>
       \/ /\ i = MaxIter
          /\ pc' = "weak_post"
          /\ UNCHANGED <<a, b, i>>
    /\ UNCHANGED <<e, n, max_iter, alter_call, p, q, result>>
    /\ UNCHANGED strongVars

\* lines 140-158
WeakPost ==
    /\ pc = "weak_post"
    /\ p' = a + b
    /\ q' = a - b
    /\ result' = IF WeakRefused(a + b, a - b)
                 THEN FactorizationFailed
                 ELSE Derive(a + b, a - b)
    /\ pc' = "weak_returned"
    /\ UNCHANGED <<e, n, max_iter, alter_call>>
    /\ UNCHANGED weakVars
    /\ UNCHANGED strongVars

-----------------------------------------------------------------------------
(* try_lock_pick_strong_private, lines 176-203: the spawn loops and the     *)
(* workers.  The workers of one diff run the same closure, so the model     *)
(* keeps, per diff, how many of them are at the select!, inside its default *)
(* arm, and out of the loop.                                                *)

\* line 177
PSize == ByteLen(n) \div 2

\* the workers the two for loops of lines 181-182 spawn
WorkerCount == PRIME_CREATE_PROCESSES * Cardinality(Diffs)

\* line 193: ((p_size * BITS_IN_BYTE) as i32 - diff) as u32, carried as the
\* i32 with the same bits (the u32 is this value modulo 2^32)
RequestedBits(diff) == PSize * BITS_IN_BYTE - diff

SafePrime(x) == IsPrime(x) /\ IsPrime((x - 1) \div 2)

\* the safe primes of at most BITS_IN_BYTE bits
SafePrimePool == {x \in 5..(2 ^ BITS_IN_BYTE - 1) : SafePrime(x)}

\* BigNumRef::generate_prime(bits, safe = true): a safe prime of exactly
\* bits bits whose two top bits are set
TopTwo(x, bits) == x \div (2 ^ (bits - 2)) = 3

\* generate_safe_prime_bit_size, lines 39-48: the values Ok(bn) can carry; the
\* empty set is Err (bits == 0 at line 40, or generate_prime refusing a
\* negative i32 at line 46)
generate_safe_prime_bit_size(bits) ==
    IF bits <= 0 THEN {}
    ELSE {x \in SafePrimePool : BitLen(x) = bits /\ TopTwo(x, bits)}

\* the receiver rx and the sender stop_tx live until
\* validate_received_prime_pairs returns
Returned == pc = "strong_returned"

\* the coordinator still reads rx
Consuming == pc \in {"spawn", "recv"}

Move(d, from, to) ==
    workers' = [workers EXCEPT ![d] = [@ EXCEPT ![from] = @ - 1, ![to] = @ + 1]]

StartStrong ==
    /\ pc = "idle"
    /\ CanRun
    /\ pc' = "spawn"
    /\ alter_call' = NoCall
    /\ UNCHANGED <<e, n, max_iter, p, q, result>>
    /\ UNCHANGED weakVars
    /\ UNCHANGED strongVars

\* lines 184-198: one pass of the inner loop; after the last one the call of
\* line 202 enters the coordinator
Spawn ==
    /\ pc = "spawn"
    /\ LET diff == spawned % Cardinality(Diffs)
       IN  workers' = [workers EXCEPT ![diff].select = @ + 1]
    /\ stops' = stops + 1
    /\ spawned' = spawned + 1
    /\ pc' = IF spawned + 1 = WorkerCount THEN "recv" ELSE "spawn"
    /\ UNCHANGED <<e, n, max_iter, alter_call, p, q, result>>
    /\ UNCHANGED weakVars
    /\ UNCHANGED <<next, checked_primes, validated, accepted, sent, stop_taken,
                   rx, stop_rx>>

\* the break of line 190 left out: the worker goes round the loop again
AfterStopLoops == "select"

\* line 190: where a worker goes after recv(stop_rx) fired
AfterStop == "exited"

\* the default arm taken whether or not a stop message waits
DefaultArmAnyTime == ~Returned

\* lines 188-192: select! runs its default arm only when no recv is ready:
\* stop_rx is empty and still connected
DefaultArm == stop_rx = 0 /\ ~Returned

\* lines 188-192: the select! of a worker of this diff
WorkerSelect(d) ==
    /\ workers[d].select > 0
    /\ \/ /\ stop_rx > 0
          /\ stop_rx' = stop_rx - 1
          /\ stop_taken' = stop_taken + 1
          /\ Move(d, "select", AfterStop)
       \/ /\ stop_rx = 0
          /\ Returned
          /\ Move(d, "select", "exited")
          /\ UNCHANGED <<stop_rx, stop_taken>>
       \/ /\ DefaultArm
          /\ Move(d, "select", "default")
          /\ UNCHANGED <<stop_rx, stop_taken>>
    /\ UNCHANGED <<e, n, max_iter, alter_call, pc, p, q, result>>
    /\ UNCHANGED weakVars
    /\ UNCHANGED <<next, checked_primes, validated, accepted, spawned, stops,
                   sent, rx>>

\* a worker that keeps the dedup set itself: it inserts its candidate into
\* checked_primes and sends it only when it is new
WorkerDefaultDedups(d) ==
    /\ workers[d].default > 0
    /\ \E prime \in generate_safe_prime_bit_size(RequestedBits(d)) :
           /\ checked_primes' = checked_primes \cup {prime}
           /\ rx' = IF Consuming /\ Len(rx) < MaxQueue /\ prime \notin checked_primes
                    THEN Append(rx, prime) ELSE rx
    /\ Move(d, "default", "select")
    /\ UNCHANGED <<e, n, max_iter, alter_call, pc, p, q, result>>
    /\ UNCHANGED weakVars
    /\ UNCHANGED <<next, validated, accepted, spawned, stops, sent, stop_taken,
                   stop_rx>>

\* lines 193-195: the default arm.  A message sent after the coordinator left
\* its loop is never received (and the send is an Err once rx is dropped), so
\* the model does not keep it; while the coordinator reads, the queue is
\* bounded by MaxQueue.
WorkerDefault(d) ==
    /\ workers[d].default > 0
    /\ LET primes == generate_safe_prime_bit_size(RequestedBits(d))
       IN  \/ /\ primes = {}
              /\ UNCHANGED rx
           \/ /\ Consuming
              /\ Len(rx) < MaxQueue
              /\ \E prime \in primes : rx' = Append(rx, prime)
           \/ /\ primes # {}
              /\ ~Consuming
              /\ UNCHANGED rx
    /\ Move(d, "default", "select")
    /\ UNCHANGED <<e, n, max_iter, alter_call, pc, p, q, result>>
    /\ UNCHANGED weakVars
    /\ UNCHANGED <<next, checked_primes, validated, accepted, spawned, stops,
                   sent, stop_taken, stop_rx>>

-----------------------------------------------------------------------------
(* validate_received_prime_pairs, lines 206-280.                           *)

\* the test of line 225 made after the candidate is counted: > for ==
BudgetSpentLate == next > MaxIter

\* line 225: the budget is used up
BudgetSpent == next = MaxIter

\* line 247: is_prime::<BigUint>(&q_uint, None).probably()
ProbablyPrime(x) == IsPrime(x)

\* the Senders of the candidate channel still alive: tx itself, a local of
\* try_lock_pick_strong_private that lives until that function returns, and
\* the clone of every spawned worker that has not left its loop
Senders ==
    (IF Returned THEN 0 ELSE 1)
        + workers[0].select + workers[1].select + workers[2].select
        + workers[0].default + workers[1].default + workers[2].default

\* recv(rx) answers Err: the channel is empty and every Sender is gone
Disconnected == rx = <<>> /\ Senders = 0

\* lines 223-250: one message taken from rx, or the Err of a disconnected
\* channel (line 224), after which the loop goes round again
Recv ==
    /\ pc = "recv"
    /\ \/ /\ rx # <<>>
          /\ LET prime == Head(rx)
                 qq == n \div prime
             IN  IF BudgetSpent
                 THEN /\ pc' = "stop"
                      /\ UNCHANGED <<next, p, q, checked_primes, validated, accepted>>
                 ELSE /\ next' = next + 1
                      /\ p' = prime
                      /\ IF prime \in checked_primes
                         THEN UNCHANGED <<q, checked_primes, validated, accepted, pc>>
                         ELSE /\ checked_primes' = checked_primes \cup {prime}
                              /\ q' = qq
                              /\ validated' = validated + 1
                              /\ IF prime * qq = n /\ ProbablyPrime(qq)
                                 THEN accepted' = TRUE /\ pc' = "stop"
                                 ELSE UNCHANGED <<accepted, pc>>
          \* once the loop is left nothing is received again: what is still
          \* queued is dead, and the model drops it here
          /\ rx' = IF pc' = "stop" THEN <<>> ELSE Tail(rx)
       \/ /\ Disconnected
          /\ UNCHANGED <<next, p, q, checked_primes, validated, accepted, pc, rx>>
    /\ UNCHANGED <<e, n, max_iter, alter_call, result>>
    /\ UNCHANGED weakVars
    /\ UNCHANGED <<spawned, stops, sent, workers, stop_taken, stop_rx>>

\* lines 254-256: the for loop sends stops messages.  The sends never block
\* and the coordinator does nothing else in between, so the loop is one step.
Stop ==
    /\ pc = "stop"
    /\ stop_rx' = stop_rx + stops
    /\ sent' = sent + stops
    /\ pc' = "strong_post"
    /\ UNCHANGED <<e, n, max_iter, alter_call, p, q, result>>
    /\ UNCHANGED weakVars
    /\ UNCHANGED <<next, checked_primes, validated, accepted, spawned, stops,
                   workers, stop_taken, rx>>

\* line 263: the final test refuses the pair
StrongRefused == p * q # n

\* lines 263-279
StrongPost ==
    /\ pc = "strong_post"
    /\ result' = IF StrongRefused THEN SearchExhausted ELSE Derive(p, q)
    /\ pc' = "strong_returned"
    /\ UNCHANGED <<e, n, max_iter, alter_call, p, q>>
    /\ UNCHANGED weakVars
    /\ UNCHANGED strongVars

-----------------------------------------------------------------------------
(* The program: a key, any number of alter_max_iter calls, then one search. *)

Next ==
    \/ \E iter \in AlterInputs : alter_max_iter(iter)
    \/ StartWeak
    \/ WeakLoop
    \/ WeakPost
    \/ StartStrong
    \/ Spawn
    \/ \E d \in Diffs : WorkerSelect(d)
    \/ \E d \in Diffs : WorkerDefault(d)
    \/ Recv
    \/ Stop
    \/ StrongPost

Spec == Init /\ [][Next]_vars

\* the steps of the calling thread inside a search, and those of the workers
CallerStep == WeakLoop \/ WeakPost \/ Spawn \/ Recv \/ Stop \/ StrongPost
WorkerStep == \E d \in Diffs : WorkerSelect(d) \/ WorkerDefault(d)

\* The scheduler lets a thread that can run take a step eventually.  The
\* caller is free never to call.
Fairness == WF_vars(CallerStep) /\ WF_vars(WorkerStep)

FairSpec == Spec /\ Fairness

-----------------------------------------------------------------------------
(* The properties.                                                         *)

WeakReturned == pc = "weak_returned"
StrongReturned == pc = "strong_returned"

\* ceil(sqrt(x))
CeilSqrt(x) == IF ISqrt(x) * ISqrt(x) = x THEN ISqrt(x) ELSE ISqrt(x) + 1

\* n = P * Q for primes P >= Q, e is invertible modulo (P - 1)(Q - 1), and the
\* a = (P + Q) / 2 at which a * a - n = ((P - Q) / 2)^2 lies fewer than
\* max_iter increments above ceil(sqrt(n))
CloseFactors(P, Q) ==
    /\ IsPrime(P) /\ IsPrime(Q)
    /\ P >= Q
    /\ P * Q = n
    /\ (P + Q) % 2 = 0
    /\ Gcd(e, (P - 1) * (Q - 1)) = 1
    /\ (P + Q) \div 2 - CeilSqrt(n) < MaxIter

\* C1: when the weak search has returned for a key n = P * Q with close prime
\* factors (reachable within max_iter increments), it returned Ok(d) from
\* exactly the pair P, Q, with (e * d) mod (P - 1)(Q - 1) = 1.
C1_CloseFactorsRecovered ==
    WeakReturned =>
        \A P \in 2..n : \A Q \in {n \div P} :
            CloseFactors(P, Q) =>
                /\ result.kind = "Ok"
                /\ p = P /\ q = Q
                /\ (e * result.d) % ((P - 1) * (Q - 1)) = 1

\* the values of a the loop of the weak search examines
Examined == {FirstA + k : k \in 0..(MaxIter - 1)}

\* C2: when the weak search has returned and no examined a made a * a - n a
\* perfect square, it returned FactorizationFailed; and an exponent is only
\* ever returned for a pair with p * q = n.
C2_NoHitFails ==
    WeakReturned =>
        /\ (\A aa \in Examined : ~IsHit(aa)) => result = FactorizationFailed
        /\ result.kind = "Ok" => p * q = n

\* the loop ran its max_iter > 0 iterations without a hit and the call failed
C2_Witness ==
    /\ WeakReturned
    /\ MaxIter > 0
    /\ i = MaxIter
    /\ \A aa \in Examined : ~IsHit(aa)
    /\ result = FactorizationFailed

\* lines 271-279 were reached: the call returned something other than the
\* error of line 265
Derived == result.kind \in {"Ok", "NoInverseExists", "panic"}

\* C3: when the strong search has returned and no pair was accepted (the
\* coordinator stopped on the budget), it returned SearchExhausted; and the
\* exponent derivation was reached only for a pair with p * q = n whose q
\* the primality oracle reported probably prime.
C3_OnlyAcceptedPairsDerived ==
    StrongReturned =>
        /\ ~accepted => result = SearchExhausted
        /\ Derived => p * q = n /\ accepted

AllExited == \A d \in Diffs : workers[d].exited = PRIME_CREATE_PROCESSES

\* C4: when the strong search has returned, every spawned worker has left
\* its loop.
C4_WorkersStoppedAtReturn == StrongReturned => spawned = WorkerCount /\ AllExited

\* C5: the step that ends the strong search after the budget ran out with no
\* accepted pair returns SearchExhausted.
C5_ExhaustionReturnsSearchExhausted ==
    [][(pc = "strong_post" /\ next = MaxIter /\ ~accepted /\ StrongReturned')
           => result'.kind = "SearchExhausted"]_vars

Exited == workers[0].exited + workers[1].exited + workers[2].exited

\* C6: once the coordinator has stopped it has sent one stop message per
\* spawned worker, 12 in all; every stop message received took one worker out
\* of its loop, so no worker receives two; and under fair scheduling the stop
\* of the coordinator leads to every worker having received a stop message
\* and left its loop.
C6_CancellationProtocol ==
    /\ [](pc \in {"strong_post", "strong_returned"}
            => sent = spawned /\ sent = 12 /\ stop_rx + stop_taken = sent)
    /\ [](stop_taken <= Exited)
    /\ (pc = "strong_post" ~> (AllExited /\ stop_taken = WorkerCount))

\* every worker has taken its stop message and exited
C6_Witness == StrongReturned /\ AllExited /\ stop_taken = WorkerCount /\ stop_rx = 0

C8_DerivationCorrect ==
    ((WeakReturned \/ StrongReturned) /\ p * q = n) =>
        LET phi == (p - 1) * (q - 1)
        IN  /\ result.kind = "Ok" => (e * result.d) % phi = 1
            /\ Gcd(e, phi) # 1 => result.kind = "NoInverseExists"

\* C9: the number of candidates divided into n and the size of
\* checked_primes never exceed max_iter.
C9_BudgetInvariant ==
    /\ ~Gt(Limbs(validated), max_iter)
    /\ ~Gt(Limbs(Cardinality(checked_primes)), max_iter)

\* the coordinator has used the whole budget of max_iter = 2 on two distinct
\* candidates
C9_Witness ==
    /\ max_iter = Limbs(2)
    /\ validated = 2
    /\ Cardinality(checked_primes) = 2

\* C10: after an alter_max_iter(iter) call, it returned the error exactly
\* when iter > 99999999999999; then max_iter is what it was before the call,
\* and otherwise max_iter = iter.
C10_AlterMaxIter ==
    alter_call.result # "none" =>
        /\ alter_call.result = "ConfigError" <=> Gt(alter_call.iter, Ceiling)
        /\ alter_call.result = "ConfigError" => max_iter = alter_call.before
        /\ alter_call.result = "Ok" => max_iter = alter_call.iter

\* a request one above the ceiling was refused after an accepted one
C10_Witness ==
    /\ alter_call.result = "ConfigError"
    /\ alter_call.iter = CeilingPlusOne
    /\ max_iter = Limbs(1)

\* the call returned an Err
Failed == result.kind \in {"FactorizationFailed", "SearchExhausted", "NoInverseExists"}

\* C11: when a search has returned an error, the numbers the error shows are
\* the public n and e and nothing else: not p, q, phi or d.
C11_ErrorsShowOnlyPublic ==
    ((WeakReturned \/ StrongReturned) /\ Failed) => result.shows = <<n, e>>

\* the coordinator has left its loop
LoopLeft == pc \in {"stop", "strong_post", "strong_returned"}

\* C12: a candidate already in checked_primes is neither counted against the
\* budget nor divided into n, so next and the number of divisions both equal
\* the number of distinct candidates taken in; and when the coordinator has
\* left its loop on the budget, max_iter distinct candidates were taken in
\* before the one that ended it.
C12_DuplicatesNotCounted ==
    /\ next = Cardinality(checked_primes)
    /\ validated = Cardinality(checked_primes)
    /\ (LoopLeft /\ ~accepted) => Cardinality(checked_primes) = MaxIter

Running ==
    workers[0].select + workers[1].select + workers[2].select
        + workers[0].default + workers[1].default + workers[2].default

\* C13: a worker inside its default arm can always finish it, its send
\* included, once the coordinator has left its loop or returned (and before
\* that whenever the queue of the model has room); once the stop messages are
\* sent there is one for every worker still running and no worker enters the
\* default arm again, so each sends at most the candidate it was already
\* producing; and under fair scheduling every worker then leaves its loop.
C13_LateSends ==
    /\ [](\A d \in Diffs :
            (workers[d].default > 0 /\ (~Consuming \/ Len(rx) < MaxQueue))
                => ENABLED WorkerDefault(d))
    /\ [](sent = WorkerCount => stop_rx = Running)
    /\ [][sent = WorkerCount
            => \A d \in Diffs : workers'[d].default <= workers[d].default]_vars
    /\ (LoopLeft ~> AllExited)

\* the call has returned and dropped rx while a worker of diff 0 is still
\* inside its default arm, about to send
C13_Witness == StrongReturned /\ workers[0].default > 0 /\ stop_rx = Running

InWeak == pc \in {"weak_loop", "weak_post", "weak_returned"}

\* C14: in the weak search the values of a examined are ceil(sqrt(n)),
\* ceil(sqrt(n)) + 1, ... in this order, at most max_iter of them, up to the
\* first one for which a * a - n is a perfect square (ceil(sqrt(n)) itself
\* with b = 0 when n is a perfect square): every value below the current a
\* was a miss, and a is ceil(sqrt(n)) plus the number of misses so far.
C14_StartsAtCeilSqrt ==
    InWeak =>
        LET a0 == CeilSqrt(n)
            misses == IF pc # "weak_loop" /\ i > 0 /\ b * b = a * a - n
                      THEN i - 1 ELSE i
        IN  /\ a = a0 + misses
            /\ i <= MaxIter
            /\ \A aa \in a0..(a - 1) : ~IsHit(aa)

\* the state the coordinator owns: SeenSet, SearchBudget and the current pair
Owned == <<checked_primes, next, p, q>>

\* a step of a worker already spawned: one of them changed its position
WorkerMoved == workers' # workers /\ spawned' = spawned

\* C15: during the strong search a step of a worker leaves checked_primes,
\* next, p and q unchanged and does nothing but append one candidate to rx or
\* take one message from stop_rx; and every step that changes checked_primes,
\* next, p or q is a receive of the coordinator, with all workers in place.
C15_SingleOwner ==
    [][/\ WorkerMoved =>
             /\ Owned' = Owned
             /\ UNCHANGED <<validated, accepted, sent, stops, pc, result>>
             /\ \/ rx' = rx /\ stop_rx' = stop_rx
                \/ stop_rx' = stop_rx /\ \E prime \in SafePrimePool : rx' = Append(rx, prime)
                \/ rx' = rx /\ stop_rx' = stop_rx - 1
       /\ (pc \in {"spawn", "recv", "stop", "strong_post"} /\ Owned' # Owned) =>
             /\ pc = "recv"
             /\ rx # <<>>
             /\ workers' = workers /\ stop_rx' = stop_rx
      ]_vars

\* a worker has sent a candidate while the coordinator, between two receives,
\* holds a non-empty checked_primes and a pair
C15_Witness ==
    /\ pc = "recv"
    /\ checked_primes # {} /\ next > 0 /\ p > 0
    /\ rx # <<>>
    /\ \E d \in Diffs : workers[d].default > 0

\* C16: a worker of offset d inside its default arm asks the generator for
\* bit_length(n) / 2 - d bits, and a candidate it gets has exactly that many.
C16_RequestedBits ==
    \A d \in Diffs :
        workers[d].default > 0 =>
            /\ RequestedBits(d) = BitLen(n) \div 2 - d
            /\ \A prime \in generate_safe_prime_bit_size(RequestedBits(d)) :
                   BitLen(prime) = BitLen(n) \div 2 - d

\* C18: under fair scheduling of the caller and the workers, a strong search
\* that was started returns, whatever the key and max_iter.
C18_StrongSearchReturns == (pc = "spawn") ~> StrongReturned

\* C19: when the weak search has returned an exponent, its pair is a
\* non-trivial factorization, p * q = n with 1 < q <= p < n; and when it has
\* returned from the trivial pair p = n, q = 1, it did not return an exponent.
C19_NonTrivialPair ==
    WeakReturned =>
        /\ result.kind = "Ok" => (p * q = n /\ 1 < q /\ q <= p /\ p < n)
        /\ (p = n /\ q = 1) => result.kind # "Ok"

\* the loop reached a = (n + 1) / 2 and the call ended on the pair n, 1
C19_Witness ==
    /\ WeakReturned
    /\ 2 * a = n + 1
    /\ p = n /\ q = 1
    /\ result.kind # "Ok"

====
